---- MODULE Spec2Model ----
(***************************************************************************)
(* High-demand stock nudging (src/high_demand_stock.py).                   *)
(*                                                                         *)
(* Time is counted in whole days.  A timestamp column value is either      *)
(* NULL (the empty tuple, pandas NaN) or <<t>> with t a day number; the    *)
(* cut-offs computed from "now" are plain day numbers.  The source         *)
(* compares the textual forms of equally formatted timestamps, which       *)
(* orders them as the day numbers are ordered.                             *)
(*                                                                         *)
(* A dataframe is a sequence of rows (records).                            *)
(***************************************************************************)
EXTENDS Integers, Sequences, FiniteSets, TLC

----------------------------------------------------------------------------
(* Bounds of the model *)

\* the last day a run may start on is the first day of week MaxWeeks
MaxWeeks == 3
\* calls of handle in one behaviour
MaxRuns == 2
\* rows of an input dataframe
MaxRows == 2

----------------------------------------------------------------------------
(* Program constants *)

IN_STOCK_COUNT == 1
VIEW_COUNT == 20
LIKE_COUNT == 15
ADEQUATE_STOCK_COUNT == <<15, 10, 5>>
LOOK_POST_RATE == 40
MAIL_CYCLE_WEEKS == 3

\* The catalogue: the Brand and Product tables.  Brand 1 has two products,
\* brand 2 has one.
Brands == {1, 2}
ProductIds == <<1, 2, 3>>
Products == {ProductIds[i] : i \in 1..Len(ProductIds)}

SubscriptionType == {"FREE", "NORMAL", "ENTERPRISE"}

\* settings.SERVICE_MODE; the three listed modes suppress the mail
SuppressedModes == {"test", "debug", "local"}
ServiceModes == {"production"} \cup SuppressedModes

NULL == << >>

\* Product.brand: the brand a product row of the database belongs to
BrandOf(p) == IF p = 2 THEN 2 ELSE 1

\* utils.date
last_n_weeks_from_now(t, n) == t - 7 * n
last_n_months_from_now(t, n) == t - 30 * n

----------------------------------------------------------------------------
(* Generic sequence helpers *)

Range(s) == {s[i] : i \in 1..Len(s)}

Permutations1(n) == {p \in [1..n -> 1..n] : \A i, j \in 1..n : p[i] = p[j] => i = j}

\* a pandas comparison of a possibly-NaN column value with a scalar: NaN
\* compares False under <, <=, > and True under !=
GtTime(x, c) == x # NULL /\ x[1] > c
LtTime(x, c) == x # NULL /\ x[1] < c
LeTime(x, c) == x # NULL /\ x[1] <= c
NeNone(x) == TRUE

----------------------------------------------------------------------------
(* StockDataframeWrapper *)

filter_idle_stock(frame, in_stock_count) ==
    SelectSeq(frame, LAMBDA r : r.current_in_stock_count <= in_stock_count)

filter_view_count(frame, view_count) ==
    SelectSeq(frame, LAMBDA r : r.view_count > view_count)

filter_like_count(frame, like_count) ==
    SelectSeq(frame, LAMBDA r : r.accumulative_product_like_count > like_count)

filter_last_tryset_time(frame, last_tryset_item_created_time) ==
    SelectSeq(frame, LAMBDA r :
        GtTime(r.latest_tryset_item_created_time, last_tryset_item_created_time))

filter_adequate_stock_count(frame) ==
    SelectSeq(frame, LAMBDA r : r.adquate_stock_count > r.stock_count)

\* look_post_rate is the quotient num/den; rate > 40.0 iff num > 40 * den
RateAbove(rate, look_upload_rate) == rate.num > look_upload_rate * rate.den

filter_look_upload_rate(frame, look_upload_rate, look_upload_rate_over_time, first_in_stock_time) ==
    SelectSeq(frame, LAMBDA r :
        /\ NeNone(r.first_in_stock_time)
        /\ \/ /\ RateAbove(r.look_post_rate, look_upload_rate)
              /\ LeTime(r.first_in_stock_time, look_upload_rate_over_time)
           \/ /\ LtTime(r.first_in_stock_time, first_in_stock_time)
              /\ GtTime(r.first_in_stock_time, look_upload_rate_over_time))

\* sort_values(by=view_count, ascending=False): every arrangement of the
\* rows that is ordered by view_count descending (the order among ties is
\* whatever the sort algorithm leaves)
sort(frame) ==
    {[i \in 1..Len(frame) |-> frame[p[i]]] : p \in
        {q \in Permutations1(Len(frame)) :
            \A i, j \in 1..Len(frame) :
                i < j => frame[q[i]].view_count >= frame[q[j]].view_count}}

----------------------------------------------------------------------------
(* HighDemandStockFilter *)

check_product_requested(row, sent_mail_product) ==
    row.product_id \in sent_mail_product

set_adequate_stock_count(row) ==
    IF row.view_count > 100 THEN ADEQUATE_STOCK_COUNT[1]
    ELSE IF row.view_count > 50 /\ row.accumulative_product_like_count > 20
         THEN ADEQUATE_STOCK_COUNT[2]
         ELSE ADEQUATE_STOCK_COUNT[3]

set_look_post_rate(row) ==
    [num |-> row.look_count * 100, den |-> row.tryset_item_count]

\* StockExtraInStockRequest.objects.values_list("product").distinct("product")
SentMailProduct(recs) == {r.product : r \in recs}

\* lines 122-124: the three derived columns
Annotate(frame, sent) ==
    [i \in 1..Len(frame) |->
        [product_id |-> frame[i].product_id,
         brand_id |-> frame[i].brand_id,
         current_in_stock_count |-> frame[i].current_in_stock_count,
         view_count |-> frame[i].view_count,
         accumulative_product_like_count |-> frame[i].accumulative_product_like_count,
         look_count |-> frame[i].look_count,
         tryset_item_count |-> frame[i].tryset_item_count,
         latest_tryset_item_created_time |-> frame[i].latest_tryset_item_created_time,
         stock_count |-> frame[i].stock_count,
         first_in_stock_time |-> frame[i].first_in_stock_time,
         adquate_stock_count |-> set_adequate_stock_count(frame[i]),
         requested_mail |-> check_product_requested(frame[i], sent),
         look_post_rate |-> set_look_post_rate(frame[i])]]

\* the chain with the view filter left out
FilterChain_NoViewFilter(frame, t) ==
    filter_look_upload_rate(
        filter_adequate_stock_count(
            filter_last_tryset_time(
                filter_like_count(
                    filter_idle_stock(frame, IN_STOCK_COUNT),
                    LIKE_COUNT),
                last_n_months_from_now(t, 1))),
        LOOK_POST_RATE,
        last_n_months_from_now(t, 3),
        last_n_weeks_from_now(t, 1))

\* lines 126-132: the chain of filters, before the sort
FilterChain(frame, t) ==
    filter_look_upload_rate(
        filter_adequate_stock_count(
            filter_last_tryset_time(
                filter_like_count(
                    filter_view_count(
                        filter_idle_stock(frame, IN_STOCK_COUNT),
                        VIEW_COUNT),
                    LIKE_COUNT),
                last_n_months_from_now(t, 1))),
        LOOK_POST_RATE,
        last_n_months_from_now(t, 3),
        last_n_weeks_from_now(t, 1))

\* the frames filter_high_demand_stock may leave in self.dataframe
filter_high_demand_stock(frame, recs, t) ==
    sort(FilterChain(Annotate(frame, SentMailProduct(recs)), t))

\* the projection and renaming of get_filtered_items
\* (적정 재고수 = adequate_stock, 3주내 요청이력 = requested_3w)
get_filtered_items(frame) ==
    [i \in 1..Len(frame) |->
        [product_id |-> frame[i].product_id,
         brand_id |-> frame[i].brand_id,
         adequate_stock |-> frame[i].adquate_stock_count,
         current_in_stock_count |-> frame[i].current_in_stock_count,
         accumulative_product_like_count |-> frame[i].accumulative_product_like_count,
         view_count |-> frame[i].view_count,
         requested_3w |-> frame[i].requested_mail,
         first_in_stock_time |-> frame[i].first_in_stock_time]]

----------------------------------------------------------------------------
(* HighDemandStockNudge *)

\* filter_brands with the cycle test alone, and strict (gt for gte)
filter_brands_StrictCycle(recs, sub, t, weeks) ==
    LET cycle == last_n_weeks_from_now(t, weeks)
    IN  {BrandOf(r.product) : r \in {x \in recs : x.requested_time > cycle}}

\* The brands __filter_brands returns: those of the records that satisfy
\* ~Q(brand.subscription_type = ENTERPRISE) | Q(requested_time >= cycle)
filter_brands(recs, sub, t, weeks) ==
    LET cycle == last_n_weeks_from_now(t, weeks)
    IN  {BrandOf(r.product) : r \in
            {x \in recs : \/ ~(sub[BrandOf(x.product)] = "ENTERPRISE")
                          \/ x.requested_time >= cycle}}

\* groupby("brand_id"): the brands that have a row, each with its rows
GroupKeys(frame) == {frame[i].brand_id : i \in 1..Len(frame)}
Group(frame, b) == SelectSeq(frame, LAMBDA r : r.brand_id = b)

\* get_high_demand_product keeping the requested rows (== True for == False)
get_high_demand_product_KeepRequested(frame, filtered) ==
    [b \in {k \in GroupKeys(frame) : k \notin filtered} |->
        SelectSeq(Group(frame, b), LAMBDA r : r.requested_3w = TRUE)]

\* the mail_list get_high_demand_product builds
get_high_demand_product(frame, filtered) ==
    [b \in {k \in GroupKeys(frame) : k \notin filtered} |->
        SelectSeq(Group(frame, b), LAMBDA r : r.requested_3w = FALSE)]

\* the rows save_instock_request hands to bulk_create
save_instock_request(frame, t) ==
    {[product |-> frame[i].product_id,
      round |-> 0,
      requested_time |-> t,
      request_amount |-> frame[i].adequate_stock] : i \in 1..Len(frame)}

----------------------------------------------------------------------------
(* TaskStockNudging *)

\* What can go wrong inside the try block of one brand
Faults == {"none", "export", "recipients", "send", "save"}

\* __export_dataframe: None for an empty frame, else the sheet
export_dataframe(frame) ==
    IF Len(frame) = 0 THEN NULL
    ELSE [i \in 1..Len(frame) |-> frame[i].product_id]

\* __send_mail with the mode test inverted (not in for in)
send_mail_InvertedMode(mode, product_data, fault) ==
    IF mode \notin SuppressedModes THEN "skipped"
    ELSE IF fault = "send" \/ product_data = NULL THEN "raised"
    ELSE "sent"

\* __send_mail: "skipped" in a suppressed mode; otherwise the message is
\* composed and sent ("sent"), or composing/sending raises ("raised":
\* an injected fault, or attaching no content)
send_mail(mode, product_data, fault) ==
    IF mode \in SuppressedModes THEN "skipped"
    ELSE IF fault = "send" \/ product_data = NULL THEN "raised"
    ELSE "sent"

\* the send list without the subscription filter
SendBrandList_AnyTier(keys, sub) == keys

\* The send list: Brand rows with id in mail_list.keys() and subscription
\* NORMAL or FREE
SendBrandList(keys, sub) == {b \in keys : sub[b] \in {"NORMAL", "FREE"}}

\* the try block with the records saved before the mail is sent
TryBrand_RecordThenSend(entry, mode, t, fault) ==
    LET failedRun == [ok |-> FALSE, mailed |-> FALSE, saved |-> {}]
    IN  IF fault = "export" /\ Len(entry) > 0 THEN failedRun
        ELSE IF fault = "recipients" THEN failedRun
        ELSE IF fault = "save" THEN failedRun
        ELSE LET m == send_mail(mode, export_dataframe(entry), fault)
             IN  [ok |-> (m # "raised"), mailed |-> (m = "sent"),
                  saved |-> save_instock_request(entry, t)]

\* the try block with the brand listed as a success before its records are
\* saved, and a failing save going unnoticed
TryBrand_SuccessBeforeSave(entry, mode, t, fault) ==
    LET failedRun == [ok |-> FALSE, mailed |-> FALSE, saved |-> {}]
    IN  IF fault = "export" /\ Len(entry) > 0 THEN failedRun
        ELSE IF fault = "recipients" THEN failedRun
        ELSE LET m == send_mail(mode, export_dataframe(entry), fault)
             IN  IF m = "raised" THEN failedRun
                 ELSE [ok |-> TRUE, mailed |-> (m = "sent"),
                       saved |-> IF fault = "save" THEN {}
                                 ELSE save_instock_request(entry, t)]

\* Lines 370-382, one pass of the try block for a brand whose mail_list
\* entry is `entry`: whether it completed, whether a mail went out, and the
\* rows inserted
TryBrand(entry, mode, t, fault) ==
    LET failedRun == [ok |-> FALSE, mailed |-> FALSE, saved |-> {}]
    IN  IF fault = "export" /\ Len(entry) > 0 THEN failedRun
        ELSE IF fault = "recipients" THEN failedRun
        ELSE LET m == send_mail(mode, export_dataframe(entry), fault)
             IN  IF m = "raised" THEN failedRun
                 ELSE IF fault = "save"
                      THEN [ok |-> FALSE, mailed |-> (m = "sent"), saved |-> {}]
                      ELSE [ok |-> TRUE, mailed |-> (m = "sent"),
                            saved |-> save_instock_request(entry, t)]

\* the handler of a failed query without its return
QueryExceptPc_NoReturn == "queried"

\* Lines 321-326: the handler of a failed query posts the error and returns
QueryExceptPc == "done"

\* Lines 384-394: the end-of-run summary
SummaryMessage(total, success, failed) ==
    [kind |-> "summary", body |-> <<total, Len(success), Len(failed)>>]

----------------------------------------------------------------------------
(* Inputs of a run: the rows the query result holds *)

Profiles == {"absent", "hot", "cold"}

ProfileRow(p, profile, t) ==
    [product_id |-> p,
     brand_id |-> BrandOf(p),
     current_in_stock_count |-> IF profile = "warm" THEN 1 ELSE 0,
     view_count |-> IF profile = "warm" THEN 30 ELSE 150,
     accumulative_product_like_count |->
        IF profile = "hot" THEN 30 ELSE IF profile = "warm" THEN 16 ELSE 5,
     look_count |-> 1,
     tryset_item_count |-> 2,
     latest_tryset_item_created_time |-> <<t - 2>>,
     stock_count |-> IF profile = "warm" THEN 4 ELSE 3,
     first_in_stock_time |-> IF profile = "warm" THEN <<t - 100>> ELSE <<t - 40>>]

RECURSIVE FrameOf(_, _, _)
FrameOf(choice, i, t) ==
    IF i > Len(ProductIds) THEN << >>
    ELSE (IF choice[ProductIds[i]] = "absent" THEN << >>
          ELSE <<ProfileRow(ProductIds[i], choice[ProductIds[i]], t)>>)
         \o FrameOf(choice, i + 1, t)

\* the dataframes of at most MaxRows rows, a product at most once
InputFrames(t) ==
    {FrameOf(c, 1, t) : c \in
        {x \in [Products -> Profiles] :
            Cardinality({p \in Products : x[p] # "absent"}) <= MaxRows}}

\* Outreach records that exist before the first run
InitAges == {1, 21, 35}
InitRecordSets ==
    {{}} \cup {{[product |-> p, round |-> 0, requested_time |-> 0 - a,
                 request_amount |-> 5]} : p \in Products, a \in InitAges}

TickDays == {7}

----------------------------------------------------------------------------
(* State *)

VARIABLES
    now,                     \* the clock, in days
    subscription_type,       \* Brand.subscription_type of every brand
    SERVICE_MODE,            \* settings.SERVICE_MODE
    records,                 \* the StockExtraInStockRequest table
    pc,                      \* where handle is
    runs,                    \* calls of handle so far
    df,                      \* line 333: the rows read from the object store
    report,                  \* line 337: the filtered items posted as a file
    sent_mail_product,       \* HighDemandStockFilter.sent_mail_product
    filtered_brands,         \* HighDemandStockNudge.filtered_brands
    mail_list,               \* HighDemandStockNudge.mail_list
    send_brand_list,         \* line 354
    success_emailed_brand,   \* line 358
    failed_emailed_brand,    \* line 358
    slack,                   \* what this run posted to the channel
    outbox,                  \* the brands this run sent a mail to
    s3_gets,                 \* object-store reads of this run
    frames,                  \* SpecFilter: the dataframe objects
    caller_df,               \* SpecFilter: the caller's dataframe (a reference)
    self_dataframe           \* SpecFilter: HighDemandStockFilter.dataframe

runVars == <<df, report, sent_mail_product, filtered_brands, mail_list,
             send_brand_list, success_emailed_brand, failed_emailed_brand,
             slack, outbox, s3_gets>>
filterVars == <<frames, caller_df, self_dataframe>>
vars == <<now, subscription_type, SERVICE_MODE, records, pc, runs, runVars, filterVars>>

NoMailList == [b \in {} |-> << >>]

Resting == {"idle", "done", "aborted"}

Init ==
    /\ now = 0
    /\ subscription_type \in [Brands -> SubscriptionType]
    /\ SERVICE_MODE \in ServiceModes
    /\ records \in InitRecordSets
    /\ pc = "idle"
    /\ runs = 0
    /\ df = << >>
    /\ report = << >>
    /\ sent_mail_product = {}
    /\ filtered_brands = {}
    /\ mail_list = NoMailList
    /\ send_brand_list = {}
    /\ success_emailed_brand = << >>
    /\ failed_emailed_brand = << >>
    /\ slack = << >>
    /\ outbox = {}
    /\ s3_gets = 0
    /\ frames = << >>
    /\ caller_df = 0
    /\ self_dataframe = 0

\* A new call of handle starts with fresh locals and objects
FreshRun ==
    /\ df' = << >>
    /\ report' = << >>
    /\ sent_mail_product' = {}
    /\ filtered_brands' = {}
    /\ mail_list' = NoMailList
    /\ send_brand_list' = {}
    /\ success_emailed_brand' = << >>
    /\ failed_emailed_brand' = << >>
    /\ outbox' = {}
    /\ s3_gets' = 0

\* Lines 308-326, execute_athena_query raises
HandleQueryFailed ==
    /\ pc \in Resting
    /\ runs < MaxRuns
    /\ runs' = runs + 1
    /\ FreshRun
    /\ slack' = <<[kind |-> "error", body |-> << >>]>>
    /\ pc' = QueryExceptPc
    /\ UNCHANGED <<now, subscription_type, SERVICE_MODE, records, filterVars>>

\* Lines 308-320, execute_athena_query returns
HandleQuery ==
    /\ pc \in Resting
    /\ runs < MaxRuns
    /\ runs' = runs + 1
    /\ FreshRun
    /\ slack' = << >>
    /\ pc' = "queried"
    /\ UNCHANGED <<now, subscription_type, SERVICE_MODE, records, filterVars>>

\* Lines 328-332, the object store read raises: nothing catches it
HandleReadFailed ==
    /\ pc = "queried"
    /\ s3_gets' = s3_gets + 1
    /\ pc' = "aborted"
    /\ UNCHANGED <<now, subscription_type, SERVICE_MODE, records, runs, df, report,
                   sent_mail_product, filtered_brands, mail_list, send_brand_list,
                   success_emailed_brand, failed_emailed_brand, slack, outbox,
                   filterVars>>

\* Lines 328-358: read, filter, post the report, build the mail list
HandlePrepare ==
    /\ pc = "queried"
    /\ \E data \in InputFrames(now) :
         \E sorted \in filter_high_demand_stock(data, records, now) :
            LET items == get_filtered_items(sorted)
                excluded == filter_brands(records, subscription_type, now, MAIL_CYCLE_WEEKS)
                ml == get_high_demand_product(items, excluded)
            IN  /\ df' = data
                /\ report' = items
                /\ sent_mail_product' = SentMailProduct(records)
                /\ slack' = Append(slack,
                      [kind |-> "report", body |-> export_dataframe(items)])
                /\ filtered_brands' = excluded
                /\ mail_list' = ml
                /\ send_brand_list' = SendBrandList(DOMAIN ml, subscription_type)
    /\ s3_gets' = s3_gets + 1
    /\ success_emailed_brand' = << >>
    /\ failed_emailed_brand' = << >>
    /\ pc' = "loop"
    /\ UNCHANGED <<now, subscription_type, SERVICE_MODE, records, runs, outbox, filterVars>>

Attempted == Range(success_emailed_brand) \cup Range(failed_emailed_brand)

\* Lines 359-382: one iteration of the send loop
HandleBrand ==
    /\ pc = "loop"
    /\ \E b \in send_brand_list \ Attempted :
         \E fault \in Faults :
            LET res == TryBrand(mail_list[b], SERVICE_MODE, now, fault)
            IN  /\ fault = "send" => SERVICE_MODE \notin SuppressedModes
                /\ outbox' = IF res.mailed THEN outbox \cup {b} ELSE outbox
                /\ records' = records \cup res.saved
                /\ IF res.ok
                   THEN /\ success_emailed_brand' = Append(success_emailed_brand, b)
                        /\ UNCHANGED failed_emailed_brand
                   ELSE /\ failed_emailed_brand' = Append(failed_emailed_brand, b)
                        /\ UNCHANGED success_emailed_brand
    /\ UNCHANGED <<now, subscription_type, SERVICE_MODE, pc, runs, df, report,
                   sent_mail_product, filtered_brands, mail_list, send_brand_list,
                   slack, s3_gets, filterVars>>

\* Lines 384-394: after the loop
HandleSummary ==
    /\ pc = "loop"
    /\ send_brand_list \subseteq Attempted
    /\ slack' = Append(slack, SummaryMessage(Cardinality(send_brand_list),
                                             success_emailed_brand,
                                             failed_emailed_brand))
    /\ pc' = "done"
    /\ UNCHANGED <<now, subscription_type, SERVICE_MODE, records, runs, df, report,
                   sent_mail_product, filtered_brands, mail_list, send_brand_list,
                   success_emailed_brand, failed_emailed_brand, outbox, s3_gets,
                   filterVars>>

\* Time passes between two runs; the locals of the finished call are gone.
\* (Before the first run the table already holds records of every age of
\* interest, so the clock starts to move after it.)
Tick ==
    /\ pc \in Resting
    /\ runs > 0
    /\ \E d \in TickDays :
         /\ now + d <= 7 * MaxWeeks
         /\ now' = now + d
    /\ FreshRun
    /\ slack' = << >>
    /\ pc' = "idle"
    /\ UNCHANGED <<subscription_type, SERVICE_MODE, records, runs, filterVars>>

Next ==
    \/ HandleQueryFailed
    \/ HandleQuery
    \/ HandleReadFailed
    \/ HandlePrepare
    \/ HandleBrand
    \/ HandleSummary
    \/ Tick

Spec == Init /\ [][Next]_vars

----------------------------------------------------------------------------
(* The eligibility filter on its own: a caller hands a dataframe to         *)
(* HighDemandStockFilter and applies filter_high_demand_stock, repeatedly.  *)
(* Dataframes are objects: `frames` holds them, and caller_df and           *)
(* self_dataframe refer to them by position.                                *)

InStockVals == {1, 2}
ViewVals == {20, 21, 51, 101}
LikeVals == {15, 16, 21}
TrysetTimeVals == {NULL, <<0 - 30>>, <<0 - 29>>}
StockCountVals == {4, 5, 9, 10, 14, 15}
FirstInStockVals == {NULL, <<0 - 91>>, <<0 - 90>>, <<0 - 89>>, <<0 - 8>>, <<0 - 7>>, <<0 - 6>>}
LookCountVals == {2, 3}

\* every combination of the values around the thresholds, for product 1
RowUniverse ==
    {[product_id |-> 1,
      brand_id |-> BrandOf(1),
      current_in_stock_count |-> a,
      view_count |-> v,
      accumulative_product_like_count |-> l,
      look_count |-> k,
      tryset_item_count |-> 5,
      latest_tryset_item_created_time |-> y,
      stock_count |-> c,
      first_in_stock_time |-> f] :
        a \in InStockVals, v \in ViewVals, l \in LikeVals, k \in LookCountVals,
        y \in TrysetTimeVals, c \in StockCountVals, f \in FirstInStockVals}

\* frames of several rows, each product at most once
ManyRowFrames ==
    {f \in UNION {[1..n -> {ProfileRow(p, q, 0) : p \in Products, q \in {"hot", "warm", "cold"}}] :
                    n \in 2..MaxRows} :
        \A i, j \in 1..Len(f) : f[i].product_id = f[j].product_id => i = j}

FilterInputs == {<< >>} \cup {<<r>> : r \in RowUniverse} \cup ManyRowFrames

\* pandas compares a column that holds no text at all (every value NaN) as a
\* numeric column: ordering it against the cut-off text is an invalid
\* comparison, which recent versions raise and older ones answer False
AllNullColumn(frame) ==
    /\ Len(frame) > 0
    /\ \/ \A i \in 1..Len(frame) : frame[i].latest_tryset_item_created_time = NULL
       \/ \A i \in 1..Len(frame) : frame[i].first_in_stock_time = NULL

\* no copy: the filter keeps the caller's object
DataframeCopy_Alias(heap, ref) == [heap |-> heap, ref |-> ref]

\* line 88, dataframe.copy(): a new object with the same rows
DataframeCopy(heap, ref) == [heap |-> Append(heap, heap[ref]), ref |-> Len(heap) + 1]

InitFilter ==
    /\ now = 0
    /\ subscription_type = [b \in Brands |-> "FREE"]
    /\ SERVICE_MODE = "test"
    /\ records \in {{}, {[product |-> 1, round |-> 0, requested_time |-> 0 - 1,
                          request_amount |-> 5]}}
    /\ pc = "caller"
    /\ runs = 0
    /\ df \in FilterInputs
    /\ report = << >>
    /\ sent_mail_product = {}
    /\ filtered_brands = {}
    /\ mail_list = NoMailList
    /\ send_brand_list = {}
    /\ success_emailed_brand = << >>
    /\ failed_emailed_brand = << >>
    /\ slack = << >>
    /\ outbox = {}
    /\ s3_gets = 0
    /\ frames = <<df>>
    /\ caller_df = 1
    /\ self_dataframe = 0

\* Lines 87-91, HighDemandStockFilter(dataframe=df)
FilterConstruct ==
    /\ pc = "caller"
    /\ LET c == DataframeCopy(frames, caller_df)
       IN  /\ frames' = c.heap
           /\ self_dataframe' = c.ref
    /\ sent_mail_product' = {}
    /\ pc' = "constructed"
    /\ UNCHANGED <<now, subscription_type, SERVICE_MODE, records, runs, df, report,
                   filtered_brands, mail_list, send_brand_list,
                   success_emailed_brand, failed_emailed_brand, slack, outbox,
                   s3_gets, caller_df>>

\* Lines 115-135, filter_high_demand_stock: the derived columns are added to
\* the object self.dataframe refers to, the filtered and sorted rows are a
\* new object, which self.dataframe then refers to
FilterApply ==
    /\ pc \in {"constructed", "filtered"}
    /\ LET sent == SentMailProduct(records)
           annotated == [frames EXCEPT ![self_dataframe] = Annotate(@, sent)]
       IN  \E sorted \in sort(FilterChain(annotated[self_dataframe], now)) :
              /\ frames' = IF self_dataframe = caller_df
                           THEN Append(annotated, sorted)
                           ELSE [annotated EXCEPT ![self_dataframe] = sorted]
              /\ self_dataframe' = IF self_dataframe = caller_df
                                   THEN Len(annotated) + 1
                                   ELSE self_dataframe
              /\ sent_mail_product' = sent
    /\ pc' = "filtered"
    /\ UNCHANGED <<now, subscription_type, SERVICE_MODE, records, runs, df, report,
                   filtered_brands, mail_list, send_brand_list,
                   success_emailed_brand, failed_emailed_brand, slack, outbox,
                   s3_gets, caller_df>>

\* Lines 122-132 on a dataframe with a wholly null timestamp column: the
\* derived columns are added, then the comparison raises
FilterRaises ==
    /\ pc = "constructed"
    /\ AllNullColumn(frames[self_dataframe])
    /\ frames' = [frames EXCEPT ![self_dataframe] = Annotate(@, SentMailProduct(records))]
    /\ sent_mail_product' = SentMailProduct(records)
    /\ pc' = "raised"
    /\ UNCHANGED <<now, subscription_type, SERVICE_MODE, records, runs, df, report,
                   filtered_brands, mail_list, send_brand_list,
                   success_emailed_brand, failed_emailed_brand, slack, outbox,
                   s3_gets, caller_df, self_dataframe>>

NextFilter ==
    \/ FilterConstruct
    \/ FilterApply
    \/ FilterRaises

SpecFilter == InitFilter /\ [][NextFilter]_vars

----------------------------------------------------------------------------
(* Vocabulary of the properties *)

RecordsOf(recs, b) == {r \in recs : BrandOf(r.product) = b}

HasKind(log, k) == \E i \in 1..Len(log) : log[i].kind = k

\* handle has built its mail list in the current call
Prepared == pc \in {"loop", "done"} /\ HasKind(slack, "report")

\* the records the current call has inserted: the products of older records
\* are all in the snapshot taken when the call filtered its data
InsertedThisRun(b) == {r \in RecordsOf(records, b) : r.product \notin sent_mail_product}

ReportRows(b) == {report[i] : i \in {j \in 1..Len(report) : report[j].brand_id = b}}

\* the six eligibility predicates, as the specification words them
AdequateStockCount(row) ==
    IF row.view_count > 100 THEN 15
    ELSE IF row.view_count > 50 /\ row.accumulative_product_like_count > 20 THEN 10
    ELSE 5

Eligible(row, t) ==
    /\ row.current_in_stock_count <= 1
    /\ row.view_count > 20
    /\ row.accumulative_product_like_count > 15
    /\ row.latest_tryset_item_created_time # NULL
    /\ row.latest_tryset_item_created_time[1] > t - 30
    /\ AdequateStockCount(row) > row.stock_count
    /\ row.first_in_stock_time # NULL
    /\ \/ /\ row.look_count * 100 > 40 * row.tryset_item_count
          /\ row.first_in_stock_time[1] <= t - 90
       \/ /\ t - 90 < row.first_in_stock_time[1]
          /\ row.first_in_stock_time[1] < t - 7

----------------------------------------------------------------------------
(* C1 *)

\* C1: a brand whose delivery raised in this run (it is in the failed list)
\* has no record inserted by this run.
C1_FailedBrandHasNoNewRecord ==
    Prepared => \A b \in Range(failed_emailed_brand) : InsertedThisRun(b) = {}

C1_Witness ==
    /\ pc = "done"
    /\ \E b \in Range(failed_emailed_brand) :
         /\ Len(mail_list[b]) > 0
         /\ RecordsOf(records, b) = {}
    /\ \E b \in Range(success_emailed_brand) : InsertedThisRun(b) # {}

----------------------------------------------------------------------------
(* C2 *)

\* C2 as claimed: in every service mode, a brand has records inserted by
\* this run only if this run sent it a mail.
C2_RecordOnlyAfterMail_AllModes ==
    Prepared => \A b \in Brands : InsertedThisRun(b) # {} => b \in outbox

\* C2 amended: in production mode a brand has records inserted by this run
\* only if this run sent it a mail; in the test, debug and local modes no
\* mail is ever sent, and records are inserted all the same.
C2_RecordOnlyAfterMail_Production ==
    /\ (Prepared /\ SERVICE_MODE = "production") =>
            \A b \in Brands : InsertedThisRun(b) # {} => b \in outbox
    /\ SERVICE_MODE \in SuppressedModes => outbox = {}

C2_Witness ==
    /\ pc = "done"
    /\ SERVICE_MODE = "production"
    /\ \E b \in Brands : InsertedThisRun(b) # {} /\ b \in outbox

----------------------------------------------------------------------------
(* C3 *)

\* C3: no ENTERPRISE brand is in the set __filter_brands returned, and every
\* ENTERPRISE brand with a row in the filtered data has a mail_list entry.
C3_EnterpriseNeverExcluded ==
    Prepared => \A b \in Brands :
        subscription_type[b] = "ENTERPRISE" =>
            /\ b \notin filtered_brands
            /\ b \in GroupKeys(report) => b \in DOMAIN mail_list

----------------------------------------------------------------------------
(* C4 *)

\* C4: an eligible product of a FREE/NORMAL brand, with records of its own
\* and all records of the brand older than three weeks, is not flagged as
\* requested, its brand is not excluded, and it is in the brand's entry.
C4_OldHistoryDoesNotBlock ==
    Prepared => \A i \in 1..Len(report) :
        LET row == report[i]
            b == row.brand_id
        IN  (/\ subscription_type[b] \in {"FREE", "NORMAL"}
             /\ RecordsOf(records, b) # {}
             /\ \A r \in RecordsOf(records, b) :
                    r.requested_time < last_n_weeks_from_now(now, 3)
             /\ \E r \in records : r.product = row.product_id)
            => /\ row.requested_3w = FALSE
               /\ b \notin filtered_brands
               /\ b \in DOMAIN mail_list
               /\ row \in Range(mail_list[b])

----------------------------------------------------------------------------
(* C5 *)

\* C5: while a FREE/NORMAL brand has a record dated now - 3 weeks or later,
\* no step of handle sends it a mail or inserts a record for it.
C5_NoRenotifyWithinCycle ==
    [][\A b \in Brands :
          (/\ subscription_type[b] \in {"FREE", "NORMAL"}
           /\ \E r \in RecordsOf(records, b) :
                  r.requested_time >= last_n_weeks_from_now(now, 3))
          => /\ (b \in outbox' => b \in outbox)
             /\ RecordsOf(records', b) = RecordsOf(records, b)]_vars

\* a second run, exactly three weeks after the first one notified the brand,
\* finds an eligible, never requested product of that brand and skips it
C5_Witness ==
    /\ pc = "done"
    /\ \E b \in Brands :
         /\ subscription_type[b] \in {"FREE", "NORMAL"}
         /\ \E r \in RecordsOf(records, b) :
              r.requested_time >= 0 /\ r.requested_time = last_n_weeks_from_now(now, 3)
         /\ \E row \in ReportRows(b) : row.requested_3w = FALSE
         /\ b \in filtered_brands
         /\ b \notin send_brand_list
         /\ b \notin outbox

----------------------------------------------------------------------------
(* C6 *)

----------------------------------------------------------------------------
(* C7 *)

\* C7: when the summary is posted, every brand of the send list is in
\* exactly one of the two lists, once; the counts add up to the total the
\* summary reports; a brand in the success list has had its mail step
\* completed and its records inserted; the summary is the last message and
\* the only summary.  Before that, no brand is listed twice.
C7_EveryBrandAccountedOnce ==
    /\ Prepared =>
        /\ Range(success_emailed_brand) \cap Range(failed_emailed_brand) = {}
        /\ Attempted \subseteq send_brand_list
        /\ Len(success_emailed_brand) + Len(failed_emailed_brand) = Cardinality(Attempted)
        /\ \A b \in Range(success_emailed_brand) :
             /\ save_instock_request(mail_list[b], now) \subseteq records
             /\ SERVICE_MODE = "production" => b \in outbox
    /\ pc = "loop" => ~HasKind(slack, "summary")
    /\ pc = "done" /\ ~HasKind(slack, "error") =>
        /\ Attempted = send_brand_list
        /\ Cardinality({i \in 1..Len(slack) : slack[i].kind = "summary"}) = 1
        /\ slack[Len(slack)] =
             [kind |-> "summary",
              body |-> <<Cardinality(send_brand_list),
                         Len(success_emailed_brand),
                         Len(failed_emailed_brand)>>]
        /\ slack[Len(slack)].body[1] = slack[Len(slack)].body[2] + slack[Len(slack)].body[3]

\* a run in which one brand failed and another, attempted after it, succeeded
C7_Witness ==
    /\ pc = "done"
    /\ Len(failed_emailed_brand) = 1
    /\ Len(success_emailed_brand) = 1
    /\ HasKind(slack, "summary")
    /\ \E b \in Range(failed_emailed_brand) : b \in outbox

----------------------------------------------------------------------------
(* C8 *)

\* C8: an ENTERPRISE brand is never in the send list, is never mailed and
\* has no record inserted by a run; its products that pass the eligibility
\* filter are in the report posted to the channel, whatever its history.
C8_EnterpriseNeverMailed ==
    \A b \in Brands :
        subscription_type[b] = "ENTERPRISE" =>
            /\ b \notin outbox
            /\ b \notin send_brand_list
            /\ b \notin Attempted
            /\ Prepared =>
                /\ InsertedThisRun(b) = {}
                /\ HasKind(slack, "report")
                /\ \A i \in 1..Len(df) :
                     (df[i].brand_id = b /\ Eligible(df[i], now))
                     => \E row \in ReportRows(b) : row.product_id = df[i].product_id

C8_Witness ==
    /\ pc = "done"
    /\ \E b \in Brands :
         /\ subscription_type[b] = "ENTERPRISE"
         /\ \E r \in RecordsOf(records, b) : r.requested_time = now - 1
         /\ ReportRows(b) # {}
    /\ outbox # {}

----------------------------------------------------------------------------
(* C9 *)

\* C9: a call whose query raised has posted the error message and nothing
\* else, has read nothing, filtered nothing, mailed nobody, inserted no
\* record, and is over.
C9_QueryFailureIsTerminal ==
    [][HasKind(slack', "error") =>
          /\ slack' = <<[kind |-> "error", body |-> << >>]>>
          /\ pc' = "done"
          /\ s3_gets' = 0
          /\ df' = << >>
          /\ report' = << >>
          /\ mail_list' = NoMailList
          /\ outbox' = {}
          /\ success_emailed_brand' = << >>
          /\ failed_emailed_brand' = << >>
          /\ records' = records]_vars

C9_Witness ==
    /\ HasKind(slack, "error")
    /\ pc = "done"
    /\ runs = 2
    /\ records # {}

----------------------------------------------------------------------------
(* C10 *)

\* a row without its derived columns
RawRow(r) ==
    [product_id |-> r.product_id,
     brand_id |-> r.brand_id,
     current_in_stock_count |-> r.current_in_stock_count,
     view_count |-> r.view_count,
     accumulative_product_like_count |-> r.accumulative_product_like_count,
     look_count |-> r.look_count,
     tryset_item_count |-> r.tryset_item_count,
     latest_tryset_item_created_time |-> r.latest_tryset_item_created_time,
     stock_count |-> r.stock_count,
     first_in_stock_time |-> r.first_in_stock_time]

====
